---- MODULE Spec2Model ----
(***************************************************************************)
(* State-machine model of the ISS tracker on the single-threaded           *)
(* JavaScript event loop: its ResourceLoader                               *)
(* (src/src/classes/ResourceLoader.js), the gating of scene construction   *)
(* in SceneManager, the telemetry poller, the projection of geographic     *)
(* positions onto the sphere, the camera modes, the ISS marker while its   *)
(* 3D model loads, the start of the application and the disposal of the    *)
(* scene.                                                                  *)
(*                                                                         *)
(* One action is one run-to-completion piece of code: a public method      *)
(* call, the continuation of loadResource() after a loader called back,    *)
(* or the continuation of startLoading() after its `await Promise.all`.    *)
(* Variables of the first group are the fields of the class; the second    *)
(* group is the state of the promises and of the loaders' requests; the    *)
(* third group only observes (what each callback received, which release   *)
(* operations were called, how often each method was called).              *)
(***************************************************************************)
EXTENDS Integers, Sequences, FiniteSets, TLC

VARIABLES
  \* ---- fields of ResourceLoader (constructor, lines 9-25)
  loadingProgress,    \* this.loadingProgress (percent, integer part)
  totalResources,     \* this.totalResources
  loadedResources,    \* this.loadedResources
  resources,          \* this.resources : Map name -> handle
  loadingCallbacks,   \* this.loadingCallbacks
  completeCallbacks,  \* this.completeCallbacks
  errorCallbacks,     \* this.errorCallbacks
  isLoading,          \* this.isLoading
  isComplete,         \* this.isComplete
  resourceList,       \* this.resourceList (undefined is modelled as << >>)
  \* ---- promises and requests in flight
  pending,            \* descriptors whose loader request has not called back
  joinState,          \* startLoading() at its await: "none", "awaiting", "done"
  joinRejected,       \* some loadResource() promise of the join was rejected
  drain,              \* the event loop is draining microtasks of a loader callback
  \* ---- observers
  progressObs,        \* per progress callback: what it received, when registered
  completeObs,        \* per complete callback: what it received, when registered
  errorObs,           \* per error callback: what it received, when registered
  settleLog,          \* per-asset completion events, in order
  completeLog,        \* one entry per execution of completeLoading()
  disposeCount,       \* per handle: how often its dispose() was called
  loadRuns,           \* startLoading() calls that reached line 81
  startCalls,         \* startLoading() calls
  defineCalls,        \* defineResources() calls
  disposeCalls,       \* dispose() calls
  lastDisposeReleased, \* handles released by the latest dispose() (-1: none yet)
  \* ---- fields of SceneManager for the loading state (constructor, 48-50)
  loadingPromise,     \* this.loadingPromise: "null" or "set"
  isResourcesLoaded,  \* this.isResourcesLoaded
  \* ---- the callers of SceneManager
  waiting,            \* waitForResources() calls suspended at their await
  initLog,            \* one entry per execution of completeInitialization()
  startInitCalls,     \* startInitialization() calls
  waitCalls,          \* waitForResources() calls
  \* ---- fields of ISSPositionService (constructor, lines 7-11)
  currentPosition,    \* this.currentPosition
  listeners,          \* this.listeners
  isPolling,          \* this.isPolling
  pollingInterval,    \* this.pollingInterval: "undefined", "null" or "timer"
  activeTimers,       \* timers created by setInterval() and not cleared
  \* ---- the network and the clock
  inFlight,           \* fetches awaiting their response: [id, issued]
  now,                \* time elapsed, in polling intervals
  \* ---- observers of the poller
  listenerObs,        \* per listener: the positions it received
  lastReturn,         \* the latest fetchCurrentPosition() that returned: its id
                      \* and its result, {} for null and {p} for the position p
  lastFetched,        \* the result of the latest one that returned a position
  stale,              \* ids of the fetches that were in flight when a
                      \* stopPolling() stopped the poller
  fetchCalls,         \* fetchCurrentPosition() calls
  \* ---- the markers (ISSMarker, GroundReferenceMarker)
  issCurrentPosition,   \* ISSMarker.currentPosition
  issMeshPosition,      \* ISSMarker.mesh.position
  groundMarkerPosition, \* GroundReferenceMarker.marker.position
  lastSample,           \* the sample of the latest handlePositionUpdate(), if any
  projection,           \* the latest call of convertLatLonToVector3D(), if any:
                        \* its arguments and its result
  \* ---- the camera of SceneManager (constructor, lines 37-46)
  cameraMode,         \* this.cameraMode
  controlsEnabled,    \* this.controls.enabled
  rotationAngle,      \* this.rotationAngle, in thousandths of a radian
  cameraY,            \* this.camera.position.y
  cameraCircleAngle,  \* {a} when (x, z) of the camera is the point of the
                      \* orbit circle at angle a, {} otherwise
  \* ---- observers of the camera
  frames,             \* animation frames processed
  lastFrame,          \* the strategies the latest frame ran
  followRuns,         \* frames that computed the follow offset
  modeCalls,          \* setCameraMode() calls
  lastRequest,        \* the argument of the latest setCameraMode()
  \* ---- fields of ISSMarker while its 3D model loads (constructor, part_003 lines 10-19)
  mesh,               \* this.mesh: "null", "model" or "sphere"
  meshPosition,       \* this.mesh.position (the origin while there is no mesh)
  markerIsLoading,    \* this.isLoading
  markerLoadingPromise,\* this.loadingPromise: "pending", "resolved", "rejected"
  markerCurrentPosition,\* this.currentPosition
  thenQueue,          \* the vectors of the reactions chained at lines 162-167
  sceneChildren,      \* the meshes handed to scene.add(), in order
  loadWaiting,        \* waitForLoad() calls suspended at their await
  loadWaitLog,        \* how each waitForLoad() call ended, in order
  settledBy,          \* which callback of loader.load() ran, "none" before
  deferredUpdates,    \* accepted updatePosition() calls made while loading
  markerCalls,        \* updatePosition() and waitForLoad() calls
  \* ---- ISSTrackerApp.initialize() (main.js, lines 28-111) and its loading screen
  appStep,            \* where initialize() stands: "start", "setup", "await start",
                      \* "await resources", "past resources"
  tracking,           \* the per-item statuses were set to loading (lines 60-63)
  appCompleteHandler, \* index of the handler of line 65 among completeObs, 0: none
  appErrorHandler     \* index of the handler of line 72 among errorObs, 0: none


fields == <<loadingProgress, totalResources, loadedResources, resources,
            loadingCallbacks, completeCallbacks, errorCallbacks,
            isLoading, isComplete, resourceList>>
flight == <<pending, joinState, joinRejected, drain>>
observers == <<progressObs, completeObs, errorObs, settleLog, completeLog,
               disposeCount, loadRuns, startCalls, defineCalls, disposeCalls,
               lastDisposeReleased>>
scene == <<loadingPromise, isResourcesLoaded, waiting, initLog,
           startInitCalls, waitCalls>>
telemetry == <<currentPosition, listeners, isPolling, pollingInterval,
               activeTimers, inFlight, now, listenerObs, lastReturn, lastFetched, stale,
               fetchCalls>>
markers == <<issCurrentPosition, issMeshPosition, groundMarkerPosition,
             lastSample, projection>>
camera == <<cameraMode, controlsEnabled, rotationAngle, cameraY,
            cameraCircleAngle, frames, lastFrame, followRuns, modeCalls,
            lastRequest>>
model == <<mesh, meshPosition, markerIsLoading, markerLoadingPromise,
           markerCurrentPosition, thenQueue, sceneChildren, loadWaiting,
           loadWaitLog, settledBy, deferredUpdates, markerCalls>>
boot == <<appStep, tracking, appCompleteHandler, appErrorHandler>>
\* everything but the loader
app == <<scene, telemetry, markers, camera, model, boot>>
outsideScene == <<telemetry, markers, camera, model, boot>>
outsideTelemetry == <<fields, flight, observers, scene, markers, camera,
                      model, boot>>
outsideMarkers == <<fields, flight, observers, scene, telemetry, camera,
                    model, boot>>
outsideCamera == <<fields, flight, observers, scene, telemetry, markers,
                   model, boot>>
outsideModel == <<fields, flight, observers, scene, telemetry, markers,
                  camera, boot>>
outsideBoot == <<telemetry, markers, camera, model>>
vars == <<fields, flight, observers, app>>

----------------------------------------------------------------------------
\* Bounds of the exploration.

\* callbacks registered over the three lists together
MaxCallbacks == 2
\* calls of defineResources(), startLoading() and dispose() together
MaxCalls == 4
\* calls of startInitialization() and waitForResources() together
MaxSceneCalls == 4
\* position listeners registered
MaxListeners == 1
\* fetchCurrentPosition() calls
MaxFetches == 3
\* polling intervals elapsed
MaxTime == 3
\* setCameraMode() calls
MaxModeCalls == 3
\* animation frames
MaxFrames == 3
\* updatePosition() and waitForLoad() calls on the marker whose model loads
MaxMarkerCalls == 3

----------------------------------------------------------------------------
\* Numbers of JavaScript. An angle in degrees is kept in ten-thousandths of
\* a degree, the precision of the configured default position; NaN is a
\* value of its own, which no comparison holds of.

TenThousandths == 10000

Degrees(n) == n * TenThousandths

\* NaN, kept as a number outside every range of angles
NaN == 99999999

\* value >= lo && value <= hi on numbers
Between(value, lo, hi) ==
  value # NaN /\ value >= lo /\ value <= hi

\* CONFIG.DEFAULT_POSITION
DefaultPosition == [lat |-> 398027, lon |-> 1628492]

\* Lengths of the scene, in ten-thousandths of its unit.
\* CONFIG.SCENE.EARTH_RADIUS (1), the radius of the unit sphere
EarthRadius == 10000

\* CONFIG.SCENE.ISS_ORBIT_HEIGHT (1.05)
IssOrbitHeight == 10500

\* CONFIG.SCENE.ISS_GROUND_REFERENCE.HEIGHT_OFFSET (0.0005)
GroundHeightOffset == 5

\* the radius of the Earth in km
EarthRadiusKm == 6371

\* CONFIG.SCENE.ROTATION_SPEED (0.001), in thousandths of a radian
RotationSpeed == 1
\* heightOffset of updateFollowISSCamera(), 1 scene unit
FollowHeightOffset == 10000

\* CONFIG.API.POLLING_INTERVAL
PollingIntervalMs == 5000

\* CONFIG.API.TIMEOUT
TimeoutMs == 10000

----------------------------------------------------------------------------
\* The asset manifest: one descriptor of each entry kind of RESOURCE_CONFIG
\* (HDR, two of TEXTURES, MODELS), in the order getAllResources() yields them.

Manifest ==
  << [name |-> "hdr_environment", type |-> "hdr"],
     [name |-> "earth_diffuse",   type |-> "texture"],
     [name |-> "earth_bump",      type |-> "texture"],
     [name |-> "iss_station",     type |-> "model"] >>

Descriptors == {Manifest[i] : i \in 1..Len(Manifest)}

\* A variant of the switch with a case for the manifest's "model" tag.
SupportedTypesWithModel == {"hdr", "texture", "model"}

\* the type tags loadResource() dispatches (its switch, lines 110-119)
SupportedTypes == {"hdr", "texture"}

\* the sub-lists of the manifest made of the descriptors of S
SubLists(S) ==
  {SelectSeq(Manifest, LAMBDA d : d \in T) : T \in SUBSET S}

\* the lists defineResources() is called with in a load session: the
\* sub-lists of the manifest
ResourceLists == SubLists(Descriptors)

\* the lists defineResources() is called with under arbitrary use of the
\* class: the sub-lists of one dispatched and one undispatched descriptor
ApiLists == SubLists({Manifest[3], Manifest[4]})

EmptyMap == [n \in {} |-> n]

Range(f) == {f[x] : x \in DOMAIN f}

----------------------------------------------------------------------------
\* Pure parts of the class.

\* updateProgress(), lines 185-188: loaded / total * 100, or 100 when total is
\* 0. The value is a float in the code; the model keeps its integer part,
\* which is 100 exactly when loaded = total and exceeds 100 exactly when the
\* float does (for the totals explored).
Percent(loaded, total) ==
  IF total > 0 THEN (loaded * 100) \div total ELSE 100

\* A variant that reports the resources still to come instead of those done.
ProgressArgsRemaining(loaded, total) ==
  [progress |-> Percent(loaded, total), completed |-> total - loaded, total |-> total]

\* the arguments updateProgress() hands to a progress callback, lines 193-197
ProgressArgs(loaded, total) ==
  [progress |-> Percent(loaded, total), completed |-> loaded, total |-> total]

\* The callbacks a dispatch loop reaches. A variant of the loops in which a
\* throwing callback ends the loop: the try is around the whole forEach.
ForEachAbortOnThrow(cbs) ==
  {cbs[i].id : i \in {j \in 1..Len(cbs) : \A k \in 1..(j - 1) : ~cbs[k].throws}}

\* The callbacks a dispatch loop reaches, lines 191-201, 217-223 and 232-238:
\* forEach over the list with try/catch around each call, so every callback
\* of the list is called whether or not an earlier one threw.
ForEachCallback(cbs) ==
  {cbs[i].id : i \in 1..Len(cbs)}

\* what the observers of one callback list record when the list is
\* dispatched once for each element of items
Notify(obs, cbs, items) ==
  [i \in DOMAIN obs |->
     IF i \in ForEachCallback(cbs)
     THEN obs[i] \o items
     ELSE obs[i]]

\* A variant of loadResource() whose catch block rethrows: the promise of a
\* failed asset is rejected.
LoadResourceRethrows(ok) ==
  IF ok THEN "fulfilled" ELSE "rejected"

\* How the promise of loadResource() settles, lines 102-129: the body is one
\* try/catch whose catch block cannot throw (triggerError and updateProgress
\* catch what callbacks throw), so the promise is fulfilled on both paths.
LoadResourcePromise(ok) ==
  "fulfilled"

\* A variant of line 90 without the await: the continuation runs at once.
PromiseAllNotAwaited(unsettled, rejected) ==
  TRUE

\* When the await of line 90 resumes: Promise.all is fulfilled once every
\* loadResource() promise is, and rejected as soon as one of them is.
PromiseAll(unsettled, rejected) ==
  unsettled = {} \/ rejected

\* A variant of line 70 that does not look at isLoading.
NeverAlreadyLoading(loading) ==
  FALSE

\* the guard of line 70
AlreadyLoading(loading) ==
  loading

\* A variant of line 75 without the check for an empty list.
NeverNothingToLoad(list) ==
  FALSE

\* the guard of line 75: !this.resourceList || this.resourceList.length === 0
NothingToLoad(list) ==
  Len(list) = 0

\* A variant of lines 270-274 that releases nothing.
ReleasableNone(map) ==
  {}

\* the handles dispose() releases, lines 270-274: those of the map that
\* expose dispose()
Releasable(map) ==
  {map[n] : n \in {m \in DOMAIN map : map[m].hasDispose}}

\* the descriptors of a list that loadResource() rejects in its switch
\* (default branch, line 118), in list order
Unsupported(list) ==
  SelectSeq(list, LAMBDA d : d.type \notin SupportedTypes)

\* the descriptors of a list for which loadHDR()/loadTexture() issue a request
Issued(list) ==
  {list[i] : i \in 1..Len(list)} \cap {d \in Descriptors : d.type \in SupportedTypes}

SetResource(map, name, h) ==
  [n \in DOMAIN map \cup {name} |-> IF n = name THEN h ELSE map[n]]

Calls == startCalls + defineCalls + disposeCalls

Registered == Len(progressObs) + Len(completeObs) + Len(errorObs)

----------------------------------------------------------------------------
Init ==
  /\ loadingProgress = 0
  /\ totalResources = 0
  /\ loadedResources = 0
  /\ resources = EmptyMap
  /\ loadingCallbacks = << >>
  /\ completeCallbacks = << >>
  /\ errorCallbacks = << >>
  /\ isLoading = FALSE
  /\ isComplete = FALSE
  /\ resourceList = << >>
  /\ pending = {}
  /\ joinState = "none"
  /\ joinRejected = FALSE
  /\ drain = FALSE
  /\ progressObs = << >>
  /\ completeObs = << >>
  /\ errorObs = << >>
  /\ settleLog = << >>
  /\ completeLog = << >>
  /\ disposeCount = EmptyMap
  /\ loadRuns = 0
  /\ startCalls = 0
  /\ defineCalls = 0
  /\ disposeCalls = 0
  /\ lastDisposeReleased = -1
  /\ loadingPromise = "null"
  /\ isResourcesLoaded = FALSE
  /\ waiting = 0
  /\ initLog = << >>
  /\ startInitCalls = 0
  /\ waitCalls = 0
  /\ currentPosition = DefaultPosition
  /\ listeners = << >>
  /\ isPolling = FALSE
  /\ pollingInterval = "undefined"
  /\ activeTimers = 0
  /\ inFlight = {}
  /\ now = 0
  /\ listenerObs = << >>
  /\ lastReturn = [id |-> 0, result |-> {}]
  /\ lastFetched = {}
  /\ stale = {}
  /\ fetchCalls = 0
  /\ issCurrentPosition = [lat |-> 0, lon |-> 0]
  /\ issMeshPosition = [x |-> 0, y |-> 0, z |-> 0]
  /\ groundMarkerPosition = [x |-> 0, y |-> 0, z |-> 0]
  /\ lastSample = {}
  /\ projection = {}
  /\ cameraMode = "orbit"
  /\ controlsEnabled = TRUE
  /\ rotationAngle = 0
  /\ cameraY = 0
  /\ cameraCircleAngle = {}
  /\ frames = 0
  /\ lastFrame = {}
  /\ followRuns = 0
  /\ modeCalls = 0
  /\ lastRequest = "none"
  /\ mesh = "null"
  /\ meshPosition = [x |-> 0, y |-> 0, z |-> 0]
  /\ markerIsLoading = TRUE
  /\ markerLoadingPromise = "pending"
  /\ markerCurrentPosition = [lat |-> 0, lon |-> 0]
  /\ thenQueue = << >>
  /\ sceneChildren = << >>
  /\ loadWaiting = 0
  /\ loadWaitLog = << >>
  /\ settledBy = "none"
  /\ deferredUpdates = 0
  /\ markerCalls = 0
  /\ appStep = "start"
  /\ tracking = FALSE
  /\ appCompleteHandler = 0
  /\ appErrorHandler = 0

----------------------------------------------------------------------------
\* Registration of callbacks. A callback is a function of the caller; the
\* model knows its identity and whether it throws when called. The model
\* registers callbacks before the first call of any other method.

\* onProgress(callback), lines 31-33
OnProgress(throws) ==
  /\ ~drain
  /\ Registered < MaxCallbacks
  /\ Calls = 0
  /\ loadingCallbacks' =
       Append(loadingCallbacks, [id |-> Len(progressObs) + 1, throws |-> throws])
  /\ progressObs' =
       Append(progressObs, << >>)
  /\ UNCHANGED <<loadingProgress, totalResources, loadedResources, resources,
                 completeCallbacks, errorCallbacks, isLoading, isComplete,
                 resourceList, flight, completeObs, errorObs, settleLog,
                 completeLog, disposeCount, loadRuns, startCalls, defineCalls,
                 disposeCalls, lastDisposeReleased>>
  /\ UNCHANGED app

\* onComplete(callback), lines 39-41
OnComplete(throws) ==
  /\ ~drain
  /\ Registered < MaxCallbacks
  /\ Calls = 0
  /\ completeCallbacks' =
       Append(completeCallbacks, [id |-> Len(completeObs) + 1, throws |-> throws])
  /\ completeObs' =
       Append(completeObs, << >>)
  /\ UNCHANGED <<loadingProgress, totalResources, loadedResources, resources,
                 loadingCallbacks, errorCallbacks, isLoading, isComplete,
                 resourceList, flight, progressObs, errorObs, settleLog,
                 completeLog, disposeCount, loadRuns, startCalls, defineCalls,
                 disposeCalls, lastDisposeReleased>>
  /\ UNCHANGED app

\* onError(callback), lines 47-49
OnError(throws) ==
  /\ ~drain
  /\ Registered < MaxCallbacks
  /\ Calls = 0
  /\ errorCallbacks' =
       Append(errorCallbacks, [id |-> Len(errorObs) + 1, throws |-> throws])
  /\ errorObs' =
       Append(errorObs, << >>)
  /\ UNCHANGED <<loadingProgress, totalResources, loadedResources, resources,
                 loadingCallbacks, completeCallbacks, isLoading, isComplete,
                 resourceList, flight, progressObs, completeObs, settleLog,
                 completeLog, disposeCount, loadRuns, startCalls, defineCalls,
                 disposeCalls, lastDisposeReleased>>
  /\ UNCHANGED app

\* defineResources(resourceList), lines 55-64
DefineResources(list) ==
  /\ ~drain
  /\ Calls < MaxCalls
  /\ totalResources' = Len(list)
  /\ resourceList' = list
  /\ loadedResources' = 0
  /\ loadingProgress' = 0
  /\ resources' = EmptyMap
  /\ isComplete' = FALSE
  /\ defineCalls' = defineCalls + 1
  /\ UNCHANGED <<loadingCallbacks, completeCallbacks, errorCallbacks, isLoading,
                 flight, progressObs, completeObs, errorObs, settleLog,
                 completeLog, disposeCount, loadRuns, startCalls, disposeCalls,
                 lastDisposeReleased>>
  /\ UNCHANGED app

----------------------------------------------------------------------------
\* completeLoading(), lines 207-224: the flags, the progress, and one call of
\* every complete callback with the resources map.
CompleteLoading ==
  /\ isLoading' = FALSE
  /\ isComplete' = TRUE
  /\ loadingProgress' = 100
  /\ completeObs' = Notify(completeObs, completeCallbacks, <<DOMAIN resources>>)
  /\ completeLog' =
       Append(completeLog, [loaded |-> loadedResources,
                            total |-> totalResources,
                            settled |-> Len(settleLog),
                            unsettled |-> Cardinality(pending)])

\* startLoading() up to its await, lines 69-90. The map() of line 87 runs
\* every loadResource() up to its first await: a descriptor of a supported
\* type issues its request; a descriptor of any other type throws inside the
\* try, so its catch block (triggerError, resourceLoaded) runs right there.
StartLoading ==
  /\ ~drain
  /\ Calls < MaxCalls
  /\ startCalls' = startCalls + 1
  /\ IF AlreadyLoading(isLoading)
     THEN UNCHANGED <<fields, flight, progressObs, completeObs, errorObs,
                      settleLog, completeLog, loadRuns>>
     ELSE IF NothingToLoad(resourceList)
     THEN /\ CompleteLoading
          /\ UNCHANGED <<totalResources, loadedResources, resources,
                         loadingCallbacks, completeCallbacks, errorCallbacks,
                         resourceList, flight, progressObs, errorObs,
                         settleLog, loadRuns>>
     ELSE LET bad == Unsupported(resourceList)
              k == Len(bad)
          IN  /\ isLoading' = TRUE
              /\ loadedResources' = loadedResources + k
              /\ loadingProgress' = Percent(loadedResources + k, totalResources)
              /\ progressObs' =
                   Notify(progressObs, loadingCallbacks,
                          [j \in 1..(k + 1) |->
                             ProgressArgs(loadedResources + j - 1, totalResources)])
              /\ errorObs' =
                   Notify(errorObs, errorCallbacks, [j \in 1..k |-> bad[j].name])
              /\ settleLog' =
                   settleLog \o [j \in 1..k |-> [name |-> bad[j].name, ok |-> FALSE]]
              /\ pending' = pending \cup Issued(resourceList)
              /\ joinState' = "awaiting"
              /\ joinRejected' = (k > 0 /\ LoadResourcePromise(FALSE) = "rejected")
              /\ drain' = FALSE
              /\ loadRuns' = loadRuns + 1
              /\ UNCHANGED <<totalResources, resources, loadingCallbacks,
                             completeCallbacks, errorCallbacks, isComplete,
                             resourceList, completeObs, completeLog>>
  /\ UNCHANGED <<disposeCount, defineCalls, disposeCalls, lastDisposeReleased>>
  /\ UNCHANGED app

\* resourceLoaded(), lines 176-179, with the updateProgress() it calls
ResourceLoaded ==
  /\ loadedResources' = loadedResources + 1
  /\ loadingProgress' = Percent(loadedResources + 1, totalResources)
  /\ progressObs' =
       Notify(progressObs, loadingCallbacks,
              <<ProgressArgs(loadedResources + 1, totalResources)>>)

\* The loader of a pending request calls back with the asset: loadHDR() or
\* loadTexture() resolve, and loadResource() continues at lines 121-123.
\* The handle may or may not expose dispose().
LoadSucceeds(d, hasDispose) ==
  /\ d \in pending
  /\ LET h == [name |-> d.name, run |-> loadRuns, hasDispose |-> hasDispose]
     IN  /\ resources' = SetResource(resources, d.name, h)
         /\ disposeCount' =
              [x \in DOMAIN disposeCount \cup {h} |->
                 IF x \in DOMAIN disposeCount THEN disposeCount[x] ELSE 0]
  /\ ResourceLoaded
  /\ pending' = pending \ {d}
  /\ settleLog' = Append(settleLog, [name |-> d.name, ok |-> TRUE])
  /\ joinRejected' = (joinRejected \/ LoadResourcePromise(TRUE) = "rejected")
  /\ drain' = (joinState = "awaiting" /\ PromiseAll(pending', joinRejected'))
  /\ UNCHANGED <<totalResources, loadingCallbacks, completeCallbacks,
                 errorCallbacks, isLoading, isComplete, resourceList, joinState,
                 completeObs, errorObs, completeLog, loadRuns, startCalls,
                 defineCalls, disposeCalls, lastDisposeReleased>>
  /\ UNCHANGED app

\* A variant of the catch block of loadResource() without its line 127: the
\* failure is reported and not counted.
LoadFailsNotCounted(d) ==
  /\ d \in pending
  /\ errorObs' = Notify(errorObs, errorCallbacks, <<d.name>>)
  /\ pending' = pending \ {d}
  /\ settleLog' = Append(settleLog, [name |-> d.name, ok |-> FALSE])
  /\ joinRejected' = (joinRejected \/ LoadResourcePromise(FALSE) = "rejected")
  /\ drain' = (joinState = "awaiting" /\ PromiseAll(pending', joinRejected'))
  /\ UNCHANGED <<fields, joinState, progressObs, completeObs, completeLog,
                 disposeCount, loadRuns, startCalls, defineCalls, disposeCalls,
                 lastDisposeReleased>>
  /\ UNCHANGED app

\* The loader of a pending request calls back with an error: loadHDR() or
\* loadTexture() reject, and loadResource() continues in its catch block,
\* lines 124-128.
LoadFails(d) ==
  /\ d \in pending
  /\ errorObs' = Notify(errorObs, errorCallbacks, <<d.name>>)
  /\ ResourceLoaded
  /\ pending' = pending \ {d}
  /\ settleLog' = Append(settleLog, [name |-> d.name, ok |-> FALSE])
  /\ joinRejected' = (joinRejected \/ LoadResourcePromise(FALSE) = "rejected")
  /\ drain' = (joinState = "awaiting" /\ PromiseAll(pending', joinRejected'))
  /\ UNCHANGED <<totalResources, resources, loadingCallbacks, completeCallbacks,
                 errorCallbacks, isLoading, isComplete, resourceList, joinState,
                 completeObs, completeLog, disposeCount, loadRuns, startCalls,
                 defineCalls, disposeCalls, lastDisposeReleased>>
  /\ UNCHANGED app

\* startLoading() after its await, lines 90-95: completeLoading() when
\* Promise.all was fulfilled, the catch block when it was rejected.
JoinResume ==
  /\ joinState = "awaiting"
  /\ PromiseAll(pending, joinRejected)
  /\ IF joinRejected
     THEN /\ errorObs' = Notify(errorObs, errorCallbacks, <<"general">>)
          /\ UNCHANGED <<loadingProgress, isLoading, isComplete, completeObs,
                         completeLog>>
     ELSE /\ CompleteLoading
          /\ UNCHANGED errorObs
  /\ joinState' = "done"
  /\ drain' = FALSE
  /\ UNCHANGED <<totalResources, loadedResources, resources, loadingCallbacks,
                 completeCallbacks, errorCallbacks, resourceList, pending,
                 joinRejected, progressObs, settleLog, disposeCount, loadRuns,
                 startCalls, defineCalls, disposeCalls, lastDisposeReleased>>
  /\ UNCHANGED app

\* dispose(), lines 269-282
Dispose ==
  /\ ~drain
  /\ Calls < MaxCalls
  /\ LET rel == Releasable(resources)
     IN  /\ disposeCount' =
              [x \in DOMAIN disposeCount |->
                 disposeCount[x] + (IF x \in rel THEN 1 ELSE 0)]
         /\ lastDisposeReleased' = Cardinality(rel)
  /\ resources' = EmptyMap
  /\ loadingCallbacks' = << >>
  /\ completeCallbacks' = << >>
  /\ errorCallbacks' = << >>
  /\ disposeCalls' = disposeCalls + 1
  /\ UNCHANGED <<loadingProgress, totalResources, loadedResources, isLoading,
                 isComplete, resourceList, flight, progressObs, completeObs,
                 errorObs, settleLog, completeLog, loadRuns, startCalls,
                 defineCalls>>
  /\ UNCHANGED app

----------------------------------------------------------------------------
\* Any use of the class: every public method at any time between two tasks
\* of the event loop, every pending request settling either way.
Next ==
  \/ \E t \in BOOLEAN : OnProgress(t)
  \/ \E t \in BOOLEAN : OnComplete(t)
  \/ \E t \in BOOLEAN : OnError(t)
  \/ \E list \in ApiLists : DefineResources(list)
  \/ StartLoading
  \/ \E d \in Descriptors, b \in BOOLEAN : LoadSucceeds(d, b)
  \/ \E d \in Descriptors : LoadFails(d)
  \/ JoinResume
  \/ Dispose

Spec == Init /\ [][Next]_vars

\* One load session: the list is declared once, before loading is started,
\* and startLoading() is not called again once the session has completed.
SessionNext ==
  \/ \E t \in BOOLEAN : OnProgress(t)
  \/ \E t \in BOOLEAN : OnComplete(t)
  \/ \E t \in BOOLEAN : OnError(t)
  \/ \E list \in ResourceLists : defineCalls = 0 /\ DefineResources(list)
  \/ defineCalls = 1 /\ ~isComplete /\ StartLoading
  \/ \E d \in Descriptors, b \in BOOLEAN : LoadSucceeds(d, b)
  \/ \E d \in Descriptors : LoadFails(d)
  \/ JoinResume

SessionSpec == Init /\ [][SessionNext]_vars

\* the request of descriptor d settles, either way
Settle(d) ==
  (\E b \in BOOLEAN : LoadSucceeds(d, b)) \/ LoadFails(d)

\* A load session in which every request eventually calls back (the
\* hypothesis of the loader: every individual load settles) and the event
\* loop runs the continuation of a settled await.
FairSessionSpec ==
  /\ SessionSpec
  /\ WF_vars(JoinResume)
  /\ \A d \in Descriptors : WF_vars(Settle(d))

----------------------------------------------------------------------------
\* SceneManager (src/src/classes/SceneManager.js): the scene waits for the
\* load session of its own ResourceLoader.

\* the list initialize() declares, line 69: getAllResources()
SceneResources == Manifest

\* A variant of line 84 that does not look at isResourcesLoaded.
NeverAlreadyInitialized(loaded) ==
  FALSE

\* the guard of completeInitialization(), line 84
AlreadyInitialized(loaded) ==
  loaded

\* the guard of startInitialization(), line 441, and of waitForResources(),
\* line 136: this.loadingPromise is set
InitializationStarted(promise) ==
  promise # "null"

\* the promise awaited at line 137 is settled: it is the promise of
\* initialize(), which returns the promise of startLoading() (lines 75-77),
\* and startLoading() returns after its await
LoadingPromiseSettled ==
  InitializationStarted(loadingPromise) /\ joinState = "done"

\* the event loop has a continuation of waitForResources() to run before it
\* takes the next task
SceneDrain ==
  waiting > 0 /\ LoadingPromiseSettled

SceneCalls == startInitCalls + waitCalls

\* initialize(), lines 56-78, on the fresh loader of the constructor (line
\* 41): defineResources(getAllResources()) at line 72, lines 55-64 of the
\* loader, then startLoading() at line 75, lines 69-90 of the loader, which
\* finds isLoading false and the list non-empty.
Initialize ==
  LET list == SceneResources
      bad == Unsupported(list)
      k == Len(bad)
  IN  /\ ~AlreadyLoading(isLoading)
      /\ ~NothingToLoad(list)
      /\ totalResources' = Len(list)
      /\ resourceList' = list
      /\ resources' = EmptyMap
      /\ isComplete' = FALSE
      /\ defineCalls' = defineCalls + 1
      /\ startCalls' = startCalls + 1
      /\ isLoading' = TRUE
      /\ loadedResources' = k
      /\ loadingProgress' = Percent(k, Len(list))
      /\ progressObs' =
           Notify(progressObs, loadingCallbacks,
                  [j \in 1..(k + 1) |-> ProgressArgs(j - 1, Len(list))])
      /\ errorObs' =
           Notify(errorObs, errorCallbacks, [j \in 1..k |-> bad[j].name])
      /\ settleLog' =
           settleLog \o [j \in 1..k |-> [name |-> bad[j].name, ok |-> FALSE]]
      /\ pending' = pending \cup Issued(list)
      /\ joinState' = "awaiting"
      /\ joinRejected' = (k > 0 /\ LoadResourcePromise(FALSE) = "rejected")
      /\ drain' = FALSE
      /\ loadRuns' = loadRuns + 1
      /\ UNCHANGED <<loadingCallbacks, completeCallbacks, errorCallbacks,
                     completeObs, completeLog, disposeCount, disposeCalls,
                     lastDisposeReleased>>

\* startInitialization(), lines 440-445
StartInitialization ==
  /\ ~drain /\ ~SceneDrain
  /\ SceneCalls < MaxSceneCalls
  /\ startInitCalls' = startInitCalls + 1
  /\ IF InitializationStarted(loadingPromise)
     THEN UNCHANGED <<fields, flight, observers, loadingPromise>>
     ELSE /\ Initialize
          /\ loadingPromise' = "set"
  /\ UNCHANGED <<isResourcesLoaded, waiting, initLog, waitCalls>>
  /\ UNCHANGED outsideScene

\* waitForResources() up to its await, lines 135-137; without a loading
\* promise it returns at once (line 140)
WaitForResources ==
  /\ ~drain /\ ~SceneDrain
  /\ SceneCalls < MaxSceneCalls
  /\ waitCalls' = waitCalls + 1
  /\ waiting' = IF InitializationStarted(loadingPromise) THEN waiting + 1 ELSE waiting
  /\ UNCHANGED <<fields, flight, observers, loadingPromise, isResourcesLoaded,
                 initLog, startInitCalls>>
  /\ UNCHANGED outsideScene

\* completeInitialization(), lines 83-104: unless the scene is already
\* built, setupHDREnvironment() (which releases the HDR texture it got from
\* the loader, line 119), the lights and the Earth, then the flag.
CompleteInitialization ==
  LET build == ~AlreadyInitialized(isResourcesLoaded)
      hdr == {resources[n] : n \in DOMAIN resources \cap {"hdr_environment"}}
  IN  /\ initLog' = Append(initLog, [complete |-> isComplete, built |-> build])
      /\ isResourcesLoaded' = (build \/ isResourcesLoaded)
      /\ disposeCount' =
           [x \in DOMAIN disposeCount |->
              disposeCount[x] + (IF build /\ x \in hdr THEN 1 ELSE 0)]

\* waitForResources() after its await, lines 137-140
WaitResume ==
  /\ SceneDrain
  /\ waiting' = waiting - 1
  /\ CompleteInitialization
  /\ UNCHANGED <<fields, flight, progressObs, completeObs, errorObs, settleLog,
                 completeLog, loadRuns, startCalls, defineCalls, disposeCalls,
                 lastDisposeReleased, loadingPromise, startInitCalls, waitCalls>>
  /\ UNCHANGED outsideScene

\* The scene and its callers: startInitialization() and waitForResources()
\* at any time, in any order and number; the requests of the loader settle
\* either way (a loaded texture has dispose()).
SceneNext ==
  \/ StartInitialization
  \/ WaitForResources
  \/ WaitResume
  \/ \E d \in Descriptors : LoadSucceeds(d, TRUE)
  \/ \E d \in Descriptors : LoadFails(d)
  \/ JoinResume

SceneSpec == Init /\ [][SceneNext]_vars

----------------------------------------------------------------------------
\* ISSPositionService (src/src/classes/ISSPositionService.js): the telemetry
\* poller. A fetch is issued by fetchCurrentPosition() and stays in flight
\* until the network answers; nothing in the class ends it otherwise.

\* the bodies of OK responses explored: a sample with numeric text, as the
\* API sends it, and a body without the two keys at its top level
Bodies ==
  { [latitude  |-> [kind |-> "str", val |-> 515000],
     longitude |-> [kind |-> "str", val |-> -1200]],
    [latitude  |-> [kind |-> "undefined", val |-> 0],
     longitude |-> [kind |-> "undefined", val |-> 0]] }

\* parseFloat() of a JSON value: the number of a number or of numeric text,
\* NaN of anything else
ParseFloat(v) ==
  IF v.kind \in {"num", "str"} THEN v.val ELSE NaN

\* the position object built from a response body, lines 25-30
PositionOf(body) ==
  [lat |-> ParseFloat(body.latitude), lon |-> ParseFloat(body.longitude)]

\* A variant of the catch block that falls back to the default position.
PositionResetOnFailure(position) ==
  DefaultPosition

\* this.currentPosition after the catch block of fetchCurrentPosition(),
\* lines 39-42: the block logs and returns null
PositionAfterFailure(position) ==
  position

\* the duration of CONFIG.API.TIMEOUT in polling intervals
TimeoutIntervals == TimeoutMs \div PollingIntervalMs

\* the ids of the fetches issued so far are 1..fetchCalls
NewFetch == [id |-> fetchCalls + 1, issued |-> now]

\* addPositionListener(callback), lines 58-62. The model registers the
\* listeners before the first fetch, as the application does.
AddPositionListener(throws) ==
  /\ Len(listeners) < MaxListeners
  /\ fetchCalls = 0
  /\ listeners' = Append(listeners, [id |-> Len(listeners) + 1, throws |-> throws])
  /\ listenerObs' = Append(listenerObs, << >>)
  /\ UNCHANGED <<currentPosition, isPolling, pollingInterval, activeTimers,
                 inFlight, now, lastReturn, lastFetched, stale, fetchCalls>>
  /\ UNCHANGED outsideTelemetry

\* fetchCurrentPosition() up to its await, lines 17-19, called by the
\* application (main.js, lines 240 and 283)
FetchCurrentPosition ==
  /\ fetchCalls < MaxFetches
  /\ inFlight' = inFlight \cup {NewFetch}
  /\ fetchCalls' = fetchCalls + 1
  /\ UNCHANGED <<currentPosition, listeners, isPolling, pollingInterval,
                 activeTimers, now, listenerObs, lastReturn, lastFetched,
                 stale>>
  /\ UNCHANGED outsideTelemetry

\* A variant of startPolling() without the guard of lines 90-93.
NeverAlreadyPolling(polling) ==
  FALSE

\* the guard of startPolling(), lines 90-93
AlreadyPolling(polling) ==
  polling

\* startPolling(), lines 89-106: the first fetch, then the timer
StartPolling ==
  /\ fetchCalls < MaxFetches
  /\ IF AlreadyPolling(isPolling)
     THEN UNCHANGED <<isPolling, pollingInterval, activeTimers, inFlight,
                      fetchCalls>>
     ELSE /\ isPolling' = TRUE
          /\ inFlight' = inFlight \cup {NewFetch}
          /\ fetchCalls' = fetchCalls + 1
          /\ pollingInterval' = "timer"
          /\ activeTimers' = activeTimers + 1
  /\ UNCHANGED <<currentPosition, listeners, now, listenerObs, lastReturn,
                 lastFetched, stale>>
  /\ UNCHANGED outsideTelemetry

\* stopPolling(), lines 111-118: clearInterval() ends the timer the field
\* refers to
StopPolling ==
  /\ pollingInterval' = IF pollingInterval = "timer" THEN "null" ELSE pollingInterval
  /\ activeTimers' =
       IF pollingInterval = "timer" THEN activeTimers - 1 ELSE activeTimers
  /\ isPolling' = FALSE
  /\ stale' = IF isPolling THEN stale \cup {f.id : f \in inFlight} ELSE stale
  /\ UNCHANGED <<currentPosition, listeners, inFlight, now, listenerObs,
                 lastReturn, lastFetched, fetchCalls>>
  /\ UNCHANGED outsideTelemetry

\* One polling interval elapses; a timer that is active runs its callback,
\* lines 101-103.
IntervalElapses ==
  /\ now < MaxTime
  /\ now' = now + 1
  /\ IF activeTimers > 0 /\ fetchCalls < MaxFetches
     THEN /\ inFlight' = inFlight \cup {NewFetch}
          /\ fetchCalls' = fetchCalls + 1
     ELSE UNCHANGED <<inFlight, fetchCalls>>
  /\ UNCHANGED <<currentPosition, listeners, isPolling, pollingInterval,
                 activeTimers, listenerObs, lastReturn, lastFetched, stale>>
  /\ UNCHANGED outsideTelemetry

\* The network answers a fetch with an OK response: lines 21-38, with
\* updatePosition() and notifyListeners(), lines 49-52 and 76-84, which
\* line 36 calls whatever isPolling is.
ResponseOk(f, body) ==
  /\ f \in inFlight
  /\ inFlight' = inFlight \ {f}
  /\ LET position == PositionOf(body)
     IN  /\ currentPosition' = position
         /\ listenerObs' = Notify(listenerObs, listeners, <<position>>)
         /\ lastReturn' = [id |-> f.id, result |-> {position}]
         /\ lastFetched' = {position}
  /\ UNCHANGED <<listeners, isPolling, pollingInterval, activeTimers, now,
                 stale, fetchCalls>>
  /\ UNCHANGED outsideTelemetry

\* The fetch fails: the network rejects it, or the response is not OK (line
\* 22), or its body is not JSON; the catch block, lines 39-42.
ResponseFails(f) ==
  /\ f \in inFlight
  /\ inFlight' = inFlight \ {f}
  /\ currentPosition' = PositionAfterFailure(currentPosition)
  /\ lastReturn' = [id |-> f.id, result |-> {}]
  /\ UNCHANGED <<listeners, isPolling, pollingInterval, activeTimers, now,
                 listenerObs, lastFetched, stale, fetchCalls>>
  /\ UNCHANGED outsideTelemetry

\* The poller and its environment: the methods at any time, time passing,
\* every fetch in flight answered either way or not at all.
TelemetryNext ==
  \/ \E t \in BOOLEAN : AddPositionListener(t)
  \/ FetchCurrentPosition
  \/ StartPolling
  \/ StopPolling
  \/ IntervalElapses
  \/ \E f \in inFlight, body \in Bodies : ResponseOk(f, body)
  \/ \E f \in inFlight : ResponseFails(f)

TelemetrySpec == Init /\ [][TelemetryNext]_vars

----------------------------------------------------------------------------
\* The projection of a geographic position onto the sphere
\* (src/src/classes/MathUtils.js) and the two markers it places
\* (ISSMarker, GroundReferenceMarker). A length is kept in ten-thousandths
\* of the scene unit, the precision of the configured heights.

\* Math.sin of an angle in degrees, for the multiples of 90 degrees: the
\* exact value, which the double computed by the code matches to 1e-15
SinDeg(a) ==
  LET q == (a \div Degrees(90)) % 4
  IN  CASE q = 0 -> 0
        [] q = 1 -> 1
        [] q = 2 -> 0
        [] q = 3 -> -1

\* Math.cos, likewise
CosDeg(a) ==
  SinDeg(a + Degrees(90))

\* MathUtils.isValidLatitude(), lines 35-37 (typeof is "number" for every
\* value of the model, NaN included)
IsValidLatitude(lat) ==
  Between(lat, Degrees(-90), Degrees(90))

\* MathUtils.isValidLongitude(), lines 44-46
IsValidLongitude(lon) ==
  Between(lon, Degrees(-180), Degrees(180))

Vector3(x, y, z) == [x |-> x, y |-> y, z |-> z]

Abs(n) == IF n < 0 THEN 0 - n ELSE n

\* Vector3.length() of a vector along one axis, the only ones the cardinal
\* angles yield
Norm(v) == Abs(v.x) + Abs(v.y) + Abs(v.z)

\* MathUtils.convertLatLonToVector3D(), lines 14-28
ConvertLatLonToVector3D(lat, lon, radius) ==
  IF ~IsValidLatitude(lat) \/ ~IsValidLongitude(lon)
  THEN Vector3(0, 0, 0)
  ELSE LET phi == Degrees(90) - lat
           theta == lon + Degrees(180)
       IN  Vector3(radius * SinDeg(phi) * CosDeg(theta),
                   radius * CosDeg(phi),
                   radius * SinDeg(phi) * SinDeg(theta))

\* the latitudes explored: the cardinal ones, one beyond each end of the
\* range, and NaN
Latitudes ==
  {Degrees(-90), Degrees(0), Degrees(90), Degrees(-91), Degrees(91), NaN}

\* the longitudes explored, likewise
Longitudes ==
  {Degrees(-180), Degrees(-90), Degrees(0), Degrees(90), Degrees(180),
   Degrees(-181), Degrees(181), NaN}

\* the altitudes explored, in km
Altitudes == {408, 420}

\* the telemetry samples handed to the application's handler
Samples ==
  [lat : Latitudes, lon : Longitudes, altitude : Altitudes]

\* the radii the application projects with: the unit sphere, the height of
\* the ground reference marker (GroundReferenceMarker, line 48) and the
\* height of the ISS marker (ISSMarker, line 157)
SurfaceHeight == EarthRadius + GroundHeightOffset

Radii == {EarthRadius, SurfaceHeight, IssOrbitHeight}

\* ISSMarker.updatePosition(), part_003 lines 142-178, on a marker whose
\* mesh is loaded (the application awaits waitForLoad() before it starts the
\* services, main.js line 94): the new mesh position, or the old one when
\* the position is rejected at lines 143-150. The altitude of the sample is
\* not a parameter of the method.
IssMeshAfterUpdate(old, position) ==
  IF ~IsValidLatitude(position.lat) \/ ~IsValidLongitude(position.lon)
  THEN old
  ELSE ConvertLatLonToVector3D(position.lat, position.lon, IssOrbitHeight)

\* GroundReferenceMarker.updatePosition(), part_002 lines 43-52: no check
\* of the coordinates before the projection is copied
GroundMarkerAfterUpdate(old, position) ==
  ConvertLatLonToVector3D(position.lat, position.lon, SurfaceHeight)

\* handlePositionUpdate(), main.js lines 179-193 (part_004 lines 752-770
\* with the altitude): the ISS marker, then the ground reference marker
HandlePositionUpdate(sample) ==
  /\ lastSample' = {sample}
  /\ issCurrentPosition' =
       IF ~IsValidLatitude(sample.lat) \/ ~IsValidLongitude(sample.lon)
       THEN issCurrentPosition
       ELSE [lat |-> sample.lat, lon |-> sample.lon]
  /\ issMeshPosition' = IssMeshAfterUpdate(issMeshPosition, sample)
  /\ groundMarkerPosition' = GroundMarkerAfterUpdate(groundMarkerPosition, sample)
  /\ UNCHANGED projection
  /\ UNCHANGED outsideMarkers

\* the truth value of a number in a condition: 0 and NaN are false
Truthy(n) ==
  n # 0 /\ n # NaN

\* handleISSDataUpdate(), part_004 lines 752-784, the handler of the
\* application built on ISSDataService: the markers are updated inside
\* if (lat && lon), line 759; the altitude handed to the ISS marker at line
\* 761 is not a parameter of its updatePosition()
HandleISSDataUpdate(data) ==
  /\ lastSample' = {data}
  /\ IF Truthy(data.lat) /\ Truthy(data.lon)
     THEN /\ issCurrentPosition' =
               IF ~IsValidLatitude(data.lat) \/ ~IsValidLongitude(data.lon)
               THEN issCurrentPosition
               ELSE [lat |-> data.lat, lon |-> data.lon]
          /\ issMeshPosition' = IssMeshAfterUpdate(issMeshPosition, data)
          /\ groundMarkerPosition' =
               GroundMarkerAfterUpdate(groundMarkerPosition, data)
     ELSE UNCHANGED <<issCurrentPosition, issMeshPosition,
                      groundMarkerPosition>>
  /\ UNCHANGED projection
  /\ UNCHANGED outsideMarkers

\* the application receiving telemetry samples, through either handler
MarkersNext ==
  \/ \E sample \in Samples : HandlePositionUpdate(sample)
  \/ \E data \in Samples : HandleISSDataUpdate(data)

MarkersSpec == Init /\ [][MarkersNext]_vars

\* a call of MathUtils.convertLatLonToVector3D(lat, lon, radius)
Project(lat, lon, radius) ==
  /\ projection' = {[lat |-> lat, lon |-> lon, radius |-> radius,
                     point |-> ConvertLatLonToVector3D(lat, lon, radius)]}
  /\ UNCHANGED <<lastSample, issCurrentPosition, issMeshPosition,
                 groundMarkerPosition>>
  /\ UNCHANGED outsideMarkers

\* the projection applied to every input explored
ProjectionNext ==
  \E lat \in Latitudes, lon \in Longitudes, radius \in Radii :
    Project(lat, lon, radius)

ProjectionSpec == Init /\ [][ProjectionNext]_vars

----------------------------------------------------------------------------
\* The camera of SceneManager (src/src/classes/SceneManager.js), once
\* initialize() has created the controls: the application wires the mode
\* selector and starts the animation after it (main.js, lines 55, 101, 105),
\* with the ISS marker set (line 90).

\* validModes, line 378, in the order of the cases of updateCamera()
ValidModes == <<"orbit", "follow-iss", "static">>

CameraModes == {ValidModes[i] : i \in 1..Len(ValidModes)}

\* the values setCameraMode() is called with: the three modes and the two
\* names the view selector of main.js uses for other modes
ModeRequests == CameraModes \cup {"follow", "fixed"}

\* A variant of line 379 that accepts every value.
AnyModeIsValid(mode) ==
  TRUE

\* validModes.includes(mode), line 379
IsValidMode(mode) ==
  mode \in CameraModes

\* A variant of lines 388-392 that never re-enables the controls.
ControlsOnlyDisabled(enabled, mode) ==
  enabled /\ mode # "follow-iss"

\* controls.enabled after setCameraMode(mode), lines 388-392
ControlsEnabledFor(enabled, mode) ==
  mode # "follow-iss"

\* A variant of updateCamera() that turns the orbit in every mode.
AngleAdvancesInEveryMode(mode, angle) ==
  angle + RotationSpeed

\* this.rotationAngle after updateCamera(), lines 301-319: only the orbit
\* case, updateOrbitCamera(), adds CONFIG.SCENE.ROTATION_SPEED
AngleAfterFrame(mode, angle) ==
  IF mode = "orbit" THEN angle + RotationSpeed ELSE angle

\* the cases the switch of updateCamera() runs for a mode, lines 302-312:
\* each case ends with break
Strategies(mode) ==
  {m \in CameraModes : m = mode}

Sign(n) == IF n > 0 THEN 1 ELSE IF n < 0 THEN -1 ELSE 0

\* the height the follow camera aims at, lines 330-349: the ISS position
\* plus heightOffset times its direction from the centre of the Earth (the
\* tangent of lines 340-344 has no y component). For a position along one
\* axis, the only ones the cardinal angles yield, normalize() gives the
\* sign of the coordinate.
FollowTargetY(issPosition) ==
  issPosition.y + Sign(issPosition.y) * FollowHeightOffset

\* camera.position.y after updateCamera(), lines 301-354: updateOrbitCamera()
\* assigns x and z only, updateFollowISSCamera() moves the camera halfway
\* to its target (lerp with 0.5, line 351; the model rounds the half down)
CameraYAfterFrame(mode, y, issPosition) ==
  IF mode = "follow-iss" THEN (y + FollowTargetY(issPosition)) \div 2 ELSE y

\* (x, z) of the camera after updateCamera(): the point of the circle of
\* radius cameraRadius at the new rotationAngle in orbit mode (lines
\* 320-321), elsewhere after the lerp of the follow mode
CircleAngleAfterFrame(mode, at, angle) ==
  CASE mode = "orbit" -> {angle}
    [] mode = "follow-iss" -> {}
    [] OTHER -> at

\* setCameraMode(mode), lines 377-396
SetCameraMode(mode) ==
  /\ modeCalls < MaxModeCalls
  /\ modeCalls' = modeCalls + 1
  /\ lastRequest' = mode
  /\ IF ~IsValidMode(mode)
     THEN UNCHANGED <<cameraMode, controlsEnabled>>
     ELSE /\ cameraMode' = mode
          /\ controlsEnabled' = ControlsEnabledFor(controlsEnabled, mode)
  /\ UNCHANGED <<rotationAngle, cameraY, cameraCircleAngle, frames, lastFrame,
                 followRuns>>
  /\ UNCHANGED outsideCamera

\* One animation frame: updateAnimation(), line 282, with updateCamera(),
\* lines 301-313, and the strategy it dispatches, lines 318-354.
Frame ==
  /\ frames < MaxFrames
  /\ frames' = frames + 1
  /\ lastFrame' = Strategies(cameraMode)
  /\ rotationAngle' = AngleAfterFrame(cameraMode, rotationAngle)
  /\ cameraY' = CameraYAfterFrame(cameraMode, cameraY, issMeshPosition)
  /\ cameraCircleAngle' =
       CircleAngleAfterFrame(cameraMode, cameraCircleAngle, rotationAngle')
  /\ followRuns' = followRuns + Cardinality(Strategies(cameraMode) \cap {"follow-iss"})
  /\ UNCHANGED <<cameraMode, controlsEnabled, modeCalls, lastRequest>>
  /\ UNCHANGED outsideCamera

\* the mode selector and the animation loop
CameraNext ==
  \/ \E mode \in ModeRequests : SetCameraMode(mode)
  \/ Frame

CameraSpec == Init /\ [][CameraNext]_vars

\* the samples received while the camera is followed: the ISS over the
\* equator and over the north pole
TrackedSamples ==
  {sample \in Samples :
     /\ sample.lat \in {Degrees(0), Degrees(90)}
     /\ sample.lon = Degrees(0)
     /\ sample.altitude = 408}

\* the camera while the application moves the ISS marker: the animation
\* loop, the mode selector and the position handler of main.js
TrackingNext ==
  \/ CameraNext
  \/ \E sample \in TrackedSamples : HandlePositionUpdate(sample)

TrackingSpec == Init /\ [][TrackingNext]_vars


----------------------------------------------------------------------------
\* ISSMarker while its 3D model loads (src/unnamed/part_003, lines 9-264).
\* The constructor starts the load (line 18); GLTFLoader calls back once,
\* with the model or with an error. Reactions chained on loadingPromise run
\* as microtasks right after the callback that settled it, in the order in
\* which they were chained, so a settlement and its reactions are one step.

\* the positions handed to updatePosition(): valid ones, the zero of each
\* coordinate among them, and one latitude out of range
MarkerPositions ==
  [lat : {Degrees(0), Degrees(90), Degrees(91)},
   lon : {Degrees(0), Degrees(90)}]

\* A variant of waitForLoad() without its try/catch: the call ends as the
\* promise does.
WaitOutcomeUncaught(promise) ==
  promise

\* waitForLoad(), lines 255-264: how the call ends for a settled promise
WaitOutcome(promise) ==
  "resolved"

\* the reactions of lines 163-167 on a fulfilled promise, each copying its
\* vector into the position of the mesh
RunReactions(position, reactions) ==
  IF reactions = << >> THEN position ELSE reactions[Len(reactions)]

\* the waitForLoad() calls suspended at line 258 resume
ResumeWaiters(promise) ==
  /\ loadWaitLog' =
       loadWaitLog \o [i \in 1..loadWaiting |-> WaitOutcome(promise)]
  /\ loadWaiting' = 0

\* the success callback, lines 50-83, when nothing throws: the model becomes
\* the mesh and is added to the scene, the promise is fulfilled
ModelLoaded ==
  /\ markerLoadingPromise = "pending"
  /\ mesh' = "model"
  /\ markerIsLoading' = FALSE
  /\ sceneChildren' = Append(sceneChildren, "model")
  /\ markerLoadingPromise' = "resolved"
  /\ meshPosition' = RunReactions(Vector3(0, 0, 0), thenQueue)
  /\ thenQueue' = << >>
  /\ ResumeWaiters("resolved")
  /\ settledBy' = "success"
  /\ UNCHANGED <<markerCurrentPosition, deferredUpdates, markerCalls>>
  /\ UNCHANGED outsideModel

\* createFallbackMarker(), lines 110-115, followed by reject(error) (lines
\* 87 and 99): the sphere is created at the origin and added to the scene;
\* the reactions of lines 163-167 are skipped, those of lines 168-170 do
\* nothing
FallbackAndReject(by) ==
  /\ markerLoadingPromise = "pending"
  /\ mesh' = "sphere"
  /\ markerIsLoading' = FALSE
  /\ sceneChildren' = Append(sceneChildren, "sphere")
  /\ markerLoadingPromise' = "rejected"
  /\ meshPosition' = Vector3(0, 0, 0)
  /\ thenQueue' = << >>
  /\ ResumeWaiters("rejected")
  /\ settledBy' = by
  /\ UNCHANGED <<markerCurrentPosition, deferredUpdates, markerCalls>>
  /\ UNCHANGED outsideModel

\* the success callback when the processing of lines 52-76 throws (a file
\* without a scene, for one): this.mesh is not yet assigned at that point
ModelProcessingFails == FallbackAndReject("processing error")

\* the error callback, lines 95-100
ModelLoadFails == FallbackAndReject("load error")

\* updatePosition(position), lines 142-178
UpdatePosition(position) ==
  /\ markerCalls < MaxMarkerCalls
  /\ markerCalls' = markerCalls + 1
  /\ IF ~IsValidLatitude(position.lat) \/ ~IsValidLongitude(position.lon)
     THEN UNCHANGED <<markerCurrentPosition, thenQueue, meshPosition,
                      deferredUpdates>>
     ELSE LET vector3Position ==
                ConvertLatLonToVector3D(position.lat, position.lon,
                                        IssOrbitHeight)
          IN  /\ markerCurrentPosition' = position
              /\ IF markerIsLoading
                 THEN /\ thenQueue' = Append(thenQueue, vector3Position)
                      /\ deferredUpdates' = deferredUpdates + 1
                      /\ UNCHANGED meshPosition
                 ELSE /\ meshPosition' =
                           IF mesh # "null" THEN vector3Position
                           ELSE meshPosition
                      /\ UNCHANGED <<thenQueue, deferredUpdates>>
  /\ UNCHANGED <<mesh, markerIsLoading, markerLoadingPromise, sceneChildren,
                 loadWaiting, loadWaitLog, settledBy>>
  /\ UNCHANGED outsideModel

\* waitForLoad(), lines 255-264: suspended while the promise is pending,
\* otherwise ended in the microtask that follows
WaitForLoad ==
  /\ markerCalls < MaxMarkerCalls
  /\ markerCalls' = markerCalls + 1
  /\ IF markerLoadingPromise = "pending"
     THEN /\ loadWaiting' = loadWaiting + 1
          /\ UNCHANGED loadWaitLog
     ELSE /\ loadWaitLog' =
               Append(loadWaitLog, WaitOutcome(markerLoadingPromise))
          /\ UNCHANGED loadWaiting
  /\ UNCHANGED <<mesh, meshPosition, markerIsLoading, markerLoadingPromise,
                 markerCurrentPosition, thenQueue, sceneChildren, settledBy,
                 deferredUpdates>>
  /\ UNCHANGED outsideModel

\* a marker under construction, its callers and the model loader
ModelNext ==
  \/ ModelLoaded
  \/ ModelProcessingFails
  \/ ModelLoadFails
  \/ \E position \in MarkerPositions : UpdatePosition(position)
  \/ WaitForLoad

ModelSpec == Init /\ [][ModelNext]_vars

----------------------------------------------------------------------------
\* ISSTrackerApp.initialize() (src/src/main.js, lines 28-111) up to the
\* creation of the markers, with the scene and the loader it drives. The
\* handlers the application registers do not throw.

\* the promise awaited at line 55 is settled: startInitialization() returns
\* this.loadingPromise (SceneManager, lines 441-444), the promise of
\* initialize(), which follows the promise of startLoading()
StartInitializationSettled ==
  LoadingPromiseSettled

\* the per-item status the loading screen shows for a name
\* (LoadingScreen.updateResourceStatus(), lines 371-410): written for every
\* name by line 62 and by the complete handler (lines 65-70), for one name
\* by the error handler (lines 72-75); in one load session the complete
\* callbacks are called after every error callback
ResourceStatus(name) ==
  IF ~tracking THEN "none"
  ELSE IF completeObs[appCompleteHandler] # << >> THEN "loaded"
  ELSE IF \E j \in 1..Len(errorObs[appErrorHandler]) :
            errorObs[appErrorHandler][j] = name
       THEN "error"
       ELSE "loading"

\* lines 28-52: the loading screen, the scene manager, and the progress
\* handler registered with onProgress()
AppSetup ==
  /\ appStep = "start"
  /\ appStep' = "setup"
  /\ loadingCallbacks' =
       Append(loadingCallbacks, [id |-> Len(progressObs) + 1, throws |-> FALSE])
  /\ progressObs' = Append(progressObs, << >>)
  /\ UNCHANGED <<loadingProgress, totalResources, loadedResources, resources,
                 completeCallbacks, errorCallbacks, isLoading, isComplete,
                 resourceList, flight, completeObs, errorObs, settleLog,
                 completeLog, disposeCount, loadRuns, startCalls, defineCalls,
                 disposeCalls, lastDisposeReleased>>
  /\ UNCHANGED <<scene, tracking, appCompleteHandler, appErrorHandler>>
  /\ UNCHANGED outsideBoot

\* line 55: startInitialization() on the new scene manager, up to the await
AppStartInitialization ==
  /\ appStep = "setup"
  /\ appStep' = "await start"
  /\ ~InitializationStarted(loadingPromise)
  /\ Initialize
  /\ loadingPromise' = "set"
  /\ startInitCalls' = startInitCalls + 1
  /\ UNCHANGED <<isResourcesLoaded, waiting, initLog, waitCalls>>
  /\ UNCHANGED <<tracking, appCompleteHandler, appErrorHandler>>
  /\ UNCHANGED outsideBoot

\* lines 59-79, the continuation of the await of line 55: every item is
\* shown as loading, the complete and the error handler are registered, and
\* waitForResources() runs up to its await
AppTrackResources ==
  /\ appStep = "await start"
  /\ ~drain
  /\ StartInitializationSettled
  /\ appStep' = "await resources"
  /\ tracking' = TRUE
  /\ completeCallbacks' =
       Append(completeCallbacks, [id |-> Len(completeObs) + 1, throws |-> FALSE])
  /\ completeObs' = Append(completeObs, << >>)
  /\ appCompleteHandler' = Len(completeObs) + 1
  /\ errorCallbacks' =
       Append(errorCallbacks, [id |-> Len(errorObs) + 1, throws |-> FALSE])
  /\ errorObs' = Append(errorObs, << >>)
  /\ appErrorHandler' = Len(errorObs) + 1
  /\ waitCalls' = waitCalls + 1
  /\ waiting' = IF InitializationStarted(loadingPromise) THEN waiting + 1 ELSE waiting
  /\ UNCHANGED <<loadingProgress, totalResources, loadedResources, resources,
                 loadingCallbacks, isLoading, isComplete, resourceList, flight,
                 progressObs, settleLog, completeLog, disposeCount, loadRuns,
                 startCalls, defineCalls, disposeCalls, lastDisposeReleased>>
  /\ UNCHANGED <<loadingPromise, isResourcesLoaded, initLog, startInitCalls>>
  /\ UNCHANGED outsideBoot

\* lines 81-94, the continuation of the await of line 79: the markers are
\* created and initialize() goes on to its next await
AppPastResources ==
  /\ appStep = "await resources"
  /\ waiting = 0
  /\ appStep' = "past resources"
  /\ UNCHANGED <<fields, flight, observers, scene, tracking,
                 appCompleteHandler, appErrorHandler>>
  /\ UNCHANGED outsideBoot

\* the application starting, and the requests of its loader settling either
\* way
AppNext ==
  \/ AppSetup
  \/ AppStartInitialization
  \/ \E d \in Descriptors : LoadSucceeds(d, TRUE)
  \/ \E d \in Descriptors : LoadFails(d)
  \/ JoinResume
  \/ AppTrackResources
  \/ WaitResume
  \/ AppPastResources

AppSpec == Init /\ [][AppNext]_vars

----------------------------------------------------------------------------
\* The lifetime of the scene: SceneManager.dispose() (SceneManager.js,
\* lines 409-435) at any time between two tasks. Of what it releases, only
\* resourceLoader.dispose() (line 425) reaches the handles of the loader:
\* Earth.dispose() (Earth.js, lines 143-152) releases geometries and
\* materials, not the textures the materials refer to.
SceneManagerDispose ==
  /\ ~SceneDrain
  /\ Dispose

\* the scene and its callers, from construction to disposal
LifetimeNext ==
  \/ SceneNext
  \/ SceneManagerDispose

LifetimeSpec == Init /\ [][LifetimeNext]_vars

----------------------------------------------------------------------------
\* What the observers say about a run.

\* the outcomes (TRUE: loaded, FALSE: failed) of the per-asset completions
\* of one name, in order
Outcomes(name) ==
  LET e == SelectSeq(settleLog, LAMBDA x : x.name = name)
  IN  [j \in 1..Len(e) |-> e[j].ok]

\* the names of the failed per-asset completions, in order
FailedSeq ==
  LET f == SelectSeq(settleLog, LAMBDA x : ~x.ok)
  IN  [j \in 1..Len(f) |-> f[j].name]

\* the names whose load succeeded
SucceededNames ==
  {settleLog[j].name : j \in {k \in 1..Len(settleLog) : settleLog[k].ok}}

\* how often a value occurs in a sequence
Occurrences(seq, v) ==
  Cardinality({j \in 1..Len(seq) : seq[j] = v})

\* the names of the manifest whose request goes through a loader
LoaderNames == {"hdr_environment", "earth_diffuse", "earth_bump"}

Throwers(cbs) == {i \in 1..Len(cbs) : cbs[i].throws}

----------------------------------------------------------------------------
\* C1. In a load session with N >= 1 declared resources, whatever the order
\* and the outcomes of the per-asset completions and whatever the order in
\* which the callbacks were registered: completeLoading() runs at most once,
\* every complete callback has been called exactly once when the session is
\* complete (and not before), and at that call loadedResources =
\* totalResources = N with every per-asset completion already done and no
\* request still unsettled.
C1_CompletesOnce ==
  Len(resourceList) >= 1 =>
    /\ Len(completeLog) <= 1
    /\ isComplete <=> Len(completeLog) = 1
    /\ \A i \in DOMAIN completeObs : Len(completeObs[i]) = Len(completeLog)
    /\ \A j \in DOMAIN completeLog :
         /\ completeLog[j].loaded = completeLog[j].total
         /\ completeLog[j].total = Len(resourceList)
         /\ completeLog[j].settled = Len(resourceList)
         /\ completeLog[j].unsettled = 0
    /\ isComplete =>
         /\ loadedResources = totalResources
         /\ Len(settleLog) = Len(resourceList)
         /\ pending = {}

\* a session of four resources, two loaded and two failed, completed, with
\* two complete callbacks each called once
C1_Witness ==
  /\ isComplete
  /\ Len(resourceList) = 4
  /\ Cardinality(SucceededNames) = 2
  /\ Len(FailedSeq) = 2
  /\ Len(completeCallbacks) = 2
  /\ \A i \in DOMAIN completeObs : Len(completeObs[i]) = 1

\* C2. startLoading() never hangs on a failure: when every request settles,
\* a session that has started loading reaches isComplete with the promise
\* of startLoading() resolved, whichever requests failed.
C2_NeverHangs ==
  (joinState = "awaiting") ~> (isComplete /\ joinState = "done")

\* a session completed although every one of its four resources failed
C2_Witness ==
  /\ isComplete
  /\ joinState = "done"
  /\ Len(resourceList) = 4
  /\ Len(FailedSeq) = 4

\* C3. A failed load is isolated: it is counted exactly like a success
\* (loadedResources is the number of per-asset completions), every error
\* callback has received the name of every failed asset exactly once, in
\* order, a failed asset is not in the map (the map holds exactly the
\* loaded ones), and every other request is untouched: still pending, or
\* settled once by its own loader.
C3_FailureIsolated ==
  /\ loadedResources = Len(settleLog)
  /\ \A i \in DOMAIN errorObs : errorObs[i] = FailedSeq
  /\ DOMAIN resources = SucceededNames
  /\ \A j \in 1..Len(FailedSeq) : FailedSeq[j] \notin DOMAIN resources
  /\ loadRuns >= 1 =>
       \A k \in 1..Len(resourceList) :
         LET d == resourceList[k]
         IN  /\ Len(Outcomes(d.name)) <= 1
             /\ d.name \in LoaderNames =>
                  ((d \in pending) <=> (Outcomes(d.name) = << >>))

\* a request failed, another one of the same session loaded after it, and
\* two error callbacks are registered
C3_Witness ==
  /\ Len(errorCallbacks) = 2
  /\ \E j, k \in 1..Len(settleLog) :
       /\ j < k
       /\ ~settleLog[j].ok
       /\ settleLog[j].name \in LoaderNames
       /\ settleLog[k].ok
  /\ isComplete

\* C4. A completed session is never resurrected: a startLoading() call made
\* when isComplete is true, on the declared list of one resource or more
\* that the session loaded, issues no request, leaves the completed count
\* alone and calls no complete callback.
C4_NoResurrection ==
  [][(isComplete /\ Len(resourceList) >= 1 /\ startCalls' = startCalls + 1) =>
       /\ pending' = pending
       /\ loadRuns' = loadRuns
       /\ loadedResources' = loadedResources
       /\ completeObs' = completeObs]_vars

\* C5. startLoading() while isLoading is a no-op: no request is issued, no
\* field or promise changes, and no callback of any list is called.
C5_ReentrantStartIsNoOp ==
  [][(isLoading /\ startCalls' = startCalls + 1) =>
       UNCHANGED <<fields, flight, progressObs, completeObs, errorObs,
                   settleLog, completeLog, loadRuns, disposeCount>>]_vars

\* startLoading() was called twice, the second time while the requests of
\* the first call were pending
C5_Witness ==
  /\ startCalls = 2
  /\ loadRuns = 1
  /\ isLoading
  /\ pending # {}
  /\ completeLog = << >>
  /\ Len(loadingCallbacks) >= 1

\* C6. startLoading() with no declared resource (and no load in progress)
\* completes within the call: when it returns, isComplete is true, the
\* progress is 100, every complete callback has been called once more, and
\* no request was issued.
C6_EmptyCompletesSynchronously ==
  [][(startCalls' = startCalls + 1 /\ ~isLoading /\ Len(resourceList) = 0) =>
       /\ isComplete'
       /\ ~isLoading'
       /\ loadingProgress' = 100
       /\ pending' = pending
       /\ loadRuns' = loadRuns
       /\ joinState' = joinState
       /\ Len(completeLog') = Len(completeLog) + 1
       /\ \A i \in ForEachCallback(completeCallbacks) :
            Len(completeObs'[i]) = Len(completeObs[i]) + 1]_vars

\* the first call of the loader was startLoading() with an empty declared
\* list; it completed at once and called the complete callback
C6_Witness ==
  /\ startCalls = 1
  /\ defineCalls = 1
  /\ disposeCalls = 0
  /\ totalResources = 0
  /\ loadRuns = 0
  /\ joinState = "none"
  /\ isComplete
  /\ loadingProgress = 100
  /\ Len(completeCallbacks) >= 1
  /\ \A i \in DOMAIN completeObs : Len(completeObs[i]) = 1

\* C7 as stated. Each progress callback is called once per per-asset
\* completion and never without one, with a non-decreasing `completed`.
C7_OncePerCompletion ==
  \A i \in DOMAIN progressObs :
    /\ Len(progressObs[i]) <= Len(settleLog)
    /\ \A j, k \in 1..Len(progressObs[i]) :
         j <= k => progressObs[i][j].completed <= progressObs[i][k].completed

\* C7 as amended. In a load session each progress callback is called once
\* when loading starts, with completed = 0, and once per per-asset
\* completion: N + 1 calls over a session of N >= 1 resources, the j-th
\* with completed = j - 1 and total = N, hence non-decreasing.
C7_OnceAtStartAndPerCompletion ==
  \A i \in DOMAIN progressObs :
    /\ Len(progressObs[i]) = loadRuns + Len(settleLog)
    /\ \A j \in 1..Len(progressObs[i]) :
         /\ progressObs[i][j].completed = j - 1
         /\ progressObs[i][j].total = Len(resourceList)
    /\ \A j, k \in 1..Len(progressObs[i]) :
         j <= k => progressObs[i][j].completed <= progressObs[i][k].completed
    /\ (isComplete /\ Len(resourceList) >= 1) =>
         Len(progressObs[i]) = Len(resourceList) + 1

\* a completed session of four resources with two progress callbacks, each
\* called five times
C7_Witness ==
  /\ isComplete
  /\ Len(resourceList) = 4
  /\ Len(loadingCallbacks) = 2
  /\ \A i \in DOMAIN progressObs : Len(progressObs[i]) = 5

\* C8. A callback that throws is harmless: in a list with a throwing
\* callback every callback of the list has still been called for every
\* event of the list (progress: the start and each per-asset completion;
\* error: each failure; complete: the completion), the completed count is
\* the number of per-asset completions, and startLoading() returns with
\* the session complete.
C8_ThrowingCallbackHarmless ==
  /\ Throwers(loadingCallbacks) # {} =>
       \A i \in DOMAIN progressObs :
         Len(progressObs[i]) = loadRuns + Len(settleLog)
  /\ Throwers(errorCallbacks) # {} =>
       \A i \in DOMAIN errorObs : Len(errorObs[i]) = Len(FailedSeq)
  /\ Throwers(completeCallbacks) # {} =>
       \A i \in DOMAIN completeObs : Len(completeObs[i]) = Len(completeLog)
  /\ loadedResources = Len(settleLog)
  /\ joinState = "done" => (isComplete /\ loadedResources = totalResources)

\* a completed session of four resources whose first progress callback
\* throws: the second one was called for the start and the four completions
C8_Witness ==
  /\ isComplete
  /\ Len(resourceList) = 4
  /\ Len(loadingCallbacks) = 2
  /\ loadingCallbacks[1].throws
  /\ ~loadingCallbacks[2].throws
  /\ Len(progressObs[2]) = 5
  /\ loadedResources = 4

C10_DisposeReleasesAndClears ==
  [][disposeCalls' = disposeCalls + 1 =>
       /\ resources' = EmptyMap
       /\ loadingCallbacks' = << >>
       /\ completeCallbacks' = << >>
       /\ errorCallbacks' = << >>
       /\ DOMAIN disposeCount' = DOMAIN disposeCount
       /\ \A h \in DOMAIN disposeCount :
            disposeCount'[h] =
              disposeCount[h] + (IF h \in Range(resources) /\ h.hasDispose THEN 1 ELSE 0)
       /\ (/\ resources = EmptyMap
           /\ loadingCallbacks = << >>
           /\ completeCallbacks = << >>
           /\ errorCallbacks = << >>) =>
            UNCHANGED <<fields, flight, disposeCount>>]_vars

\* dispose() was called twice on a loader that had registered callbacks and
\* a loaded handle with dispose(): the handle was released once, by the
\* first call, and the second call released nothing
C10_Witness ==
  /\ disposeCalls = 2
  /\ lastDisposeReleased = 0
  /\ Registered = 2
  /\ resources = EmptyMap
  /\ loadingCallbacks = << >> /\ completeCallbacks = << >> /\ errorCallbacks = << >>
  /\ \E h \in DOMAIN disposeCount : h.hasDispose /\ disposeCount[h] = 1

\* C11. Scene construction is gated on the load session: every execution
\* of completeInitialization() started by waitForResources() finds the
\* session of the loader complete; however many times startInitialization()
\* and waitForResources() are called, the loads are started exactly once
\* (by the first startInitialization()) and the scene objects are built at
\* most once, the flag isResourcesLoaded telling whether they were.
C11_SceneGatedOnLoad ==
  /\ \A j \in DOMAIN initLog : initLog[j].complete
  /\ Cardinality({j \in DOMAIN initLog : initLog[j].built}) <= 1
  /\ isResourcesLoaded <=> (\E j \in DOMAIN initLog : initLog[j].built)
  /\ isResourcesLoaded => isComplete
  /\ loadRuns = (IF startInitCalls >= 1 THEN 1 ELSE 0)
  /\ startCalls = loadRuns /\ defineCalls = loadRuns
  /\ (loadRuns = 0) <=> (loadingPromise = "null")

\* startInitialization() was called twice and waitForResources() twice, both
\* of them while the requests were pending: the loads ran once, the first
\* continuation built the scene and the second one found it built
C11_Witness ==
  /\ startInitCalls = 2
  /\ waitCalls = 2
  /\ loadRuns = 1
  /\ Len(initLog) = 2
  /\ initLog[1].built /\ ~initLog[2].built
  /\ isResourcesLoaded
  /\ Len(FailedSeq) >= 2

\* C12 as stated. The response of a fetch that was in flight when
\* stopPolling() stopped the poller is discarded: the step in which that fetch returns changes
\* neither currentPosition nor what any listener has received. (The fetch
\* is not aborted: it stays in flight until the network answers.)
C12_StaleFetchDiscarded ==
  [][\A f \in inFlight :
       (f \notin inFlight' /\ f.id \in stale) =>
         /\ currentPosition' = currentPosition
         /\ listenerObs' = listenerObs]_vars

\* C13. A failed fetch leaves everything else unchanged: the call returns
\* null, currentPosition, the listeners' records, isPolling and the timer
\* are what they were, and the other fetches stay in flight; while the timer
\* is set, each elapsed interval issues the next fetch whatever the earlier
\* ones returned. Hence currentPosition is always the default position or
\* the result of the latest fetch that returned a position.
C13_FailedFetchChangesNothing ==
  [][/\ ((lastReturn'.id # lastReturn.id /\ lastReturn'.result = {}) =>
            (/\ currentPosition' = currentPosition
             /\ listenerObs' = listenerObs
             /\ isPolling' = isPolling
             /\ pollingInterval' = pollingInterval
             /\ Cardinality(inFlight') = Cardinality(inFlight) - 1
             /\ inFlight' \subseteq inFlight))
      /\ ((now' = now + 1 /\ pollingInterval = "timer" /\ fetchCalls < MaxFetches) =>
            (/\ fetchCalls' = fetchCalls + 1
             /\ inFlight' = inFlight \cup {[id |-> fetchCalls', issued |-> now]}))
      /\ currentPosition' \in
            (IF lastFetched' = {} THEN {DefaultPosition} ELSE lastFetched')]_vars

\* a fetch returned a position, a later one failed while polling, and the
\* timer then issued another fetch: the position is still the fetched one
\* and the listener was called once, with it
C13_Witness ==
  /\ lastReturn.id = 2
  /\ lastReturn.result = {}
  /\ lastFetched = {currentPosition}
  /\ isPolling /\ pollingInterval = "timer"
  /\ Len(listeners) = 1 /\ listenerObs[1] = <<currentPosition>>
  /\ \E f \in inFlight : f.id = 3 /\ f.issued > 0

\* C14 as stated. Every fetch settles: none is still in flight once more
\* than CONFIG.API.TIMEOUT has elapsed since it was issued.
C14_FetchEndsAtTimeout ==
  \A f \in inFlight : now - f.issued <= TimeoutIntervals

\* C15 as stated. A sample whose latitude is outside [-90, 90] or whose
\* longitude is outside [-180, 180], or is NaN, moves neither marker, and
\* the projection yields no point for it.
C15_InvalidSampleMovesNothing ==
  [][\A sample \in lastSample' :
       (~IsValidLatitude(sample.lat) \/ ~IsValidLongitude(sample.lon)) =>
         /\ issMeshPosition' = issMeshPosition
         /\ groundMarkerPosition' = groundMarkerPosition]_vars

\* C16 as stated. On the unit sphere, latitude 0 and longitude 0 project to
\* (1, 0, 0), and at the cardinal latitudes and longitudes the projection
\* with radius r is x = r cos(lat) cos(-lon), y = r sin(lat),
\* z = r cos(lat) sin(-lon).
C16_CardinalProjection ==
  \A c \in projection :
    (IsValidLatitude(c.lat) /\ IsValidLongitude(c.lon)) =>
      /\ c.point = Vector3(c.radius * CosDeg(c.lat) * CosDeg(0 - c.lon),
                           c.radius * SinDeg(c.lat),
                           c.radius * CosDeg(c.lat) * SinDeg(0 - c.lon))
      /\ (c.lat = 0 /\ c.lon = 0 /\ c.radius = EarthRadius) =>
           c.point = Vector3(EarthRadius, 0, 0)

\* C17 as stated. After an accepted sample the ISS marker is at distance
\* base radius + altitude / 6371 from the centre of the sphere (both sides
\* multiplied by 6371 here), so the distance follows the sample's altitude.
C17_RadiusFollowsAltitude ==
  \A sample \in lastSample :
    (IsValidLatitude(sample.lat) /\ IsValidLongitude(sample.lon)) =>
      Norm(issMeshPosition) * EarthRadiusKm =
        EarthRadius * EarthRadiusKm + sample.altitude * TenThousandths

\* C18. After any sequence of setCameraMode() calls, controls.enabled is
\* false exactly when cameraMode is 'follow-iss'; in particular a call that
\* leaves follow-iss for orbit or static re-enables the controls.
C18_ControlsDisabledIffFollow ==
  controlsEnabled <=> (cameraMode # "follow-iss")

\* the mode was follow-iss for the latest frame, with the controls then
\* disabled, and a later call has switched to static: the controls are
\* enabled again
C18_Witness ==
  /\ lastFrame = {"follow-iss"}
  /\ cameraMode = "static"
  /\ lastRequest = "static"
  /\ controlsEnabled
  /\ modeCalls = 2

\* C19. cameraMode is always one of orbit, follow-iss and static, and orbit
\* before the first call; setCameraMode() with another value leaves
\* cameraMode and controls.enabled as they were; with one of the three
\* values cameraMode is that value when the call returns; and every frame
\* runs exactly one strategy, that of the mode current at the frame.
C19_ThreeModesOnly ==
  [][/\ cameraMode' \in CameraModes
      /\ (modeCalls' = 0 => cameraMode' = "orbit")
      /\ ((modeCalls' = modeCalls + 1 /\ lastRequest' \notin CameraModes) =>
            (cameraMode' = cameraMode /\ controlsEnabled' = controlsEnabled))
      /\ ((modeCalls' = modeCalls + 1 /\ lastRequest' \in CameraModes) =>
            cameraMode' = lastRequest')
      /\ (frames' = frames + 1 =>
            (lastFrame' = {cameraMode} /\ cameraMode' = cameraMode))]_vars

\* follow-iss was selected, a value that is no mode was then rejected, and
\* the next frame ran the follow strategy alone
C19_Witness ==
  /\ modeCalls = 2
  /\ lastRequest = "fixed"
  /\ cameraMode = "follow-iss"
  /\ ~controlsEnabled
  /\ frames = 1
  /\ lastFrame = {"follow-iss"}

\* C20. rotationAngle advances by ROTATION_SPEED in each frame processed
\* in orbit mode, in which no follow offset is computed, and is left as it
\* is by every frame processed in follow-iss or static mode and by every
\* setCameraMode(): the first orbit frame after follow-iss continues from
\* the angle the orbit had reached.
C20_OrbitAngleIndependent ==
  [][IF frames' = frames + 1
     THEN IF cameraMode = "orbit"
          THEN /\ rotationAngle' = rotationAngle + RotationSpeed
               /\ followRuns' = followRuns
          ELSE rotationAngle' = rotationAngle
     ELSE rotationAngle' = rotationAngle]_vars

\* an orbit frame, a follow-iss frame and, after the switch back, an orbit
\* frame: the angle is two steps and the follow offset was computed once
C20_Witness ==
  /\ frames = 3
  /\ followRuns = 1
  /\ lastFrame = {"orbit"}
  /\ cameraMode = "orbit"
  /\ rotationAngle = 2 * RotationSpeed
  /\ modeCalls = 2

\* C21. Whichever way the load of the ISS model settles (model loaded, load
\* error, error while the loaded model is processed), from then on the
\* marker is usable: isLoadingModel() is false, getMesh() is the model after
\* a success and the fallback sphere otherwise, that mesh is the one object
\* added to the scene, added once, and every waitForLoad() call has ended
\* or ends resolved, none rejected and none left suspended.
C21_MarkerUsableAfterLoad ==
  /\ (markerLoadingPromise # "pending") =>
       /\ ~markerIsLoading
       /\ mesh = (IF settledBy = "success" THEN "model" ELSE "sphere")
       /\ sceneChildren = <<mesh>>
       /\ loadWaiting = 0
  /\ \A i \in 1..Len(loadWaitLog) : loadWaitLog[i] = "resolved"
  /\ (markerLoadingPromise = "pending") =>
       (markerIsLoading /\ mesh = "null" /\ sceneChildren = << >>
          /\ loadWaitLog = << >>)

\* the processing of the loaded model threw, and a waitForLoad() call made
\* before and one made after have both ended
C21_Witness ==
  /\ settledBy = "processing error"
  /\ mesh = "sphere"
  /\ Len(loadWaitLog) = 2
  /\ markerCalls = 2

\* C30 as stated. No accepted position is lost across the load: when
\* updatePosition() accepted positions while the model was loading, then
\* once the load has settled, with the model or with the fallback sphere,
\* the mesh is at the projection of getCurrentPosition().
C30_NoUpdateLostAcrossLoad ==
  (markerLoadingPromise # "pending" /\ deferredUpdates > 0) =>
    meshPosition =
      ConvertLatLonToVector3D(markerCurrentPosition.lat,
                              markerCurrentPosition.lon, IssOrbitHeight)

\* C22 as stated. In the initialization sequence of the application, every
\* asset whose load failed is shown with the status 'error' in the loading
\* screen (the handler registered through onError was called for it) once
\* initialization has gone past waitForResources().
C22_FailedAssetShownAsError ==
  (appStep = "past resources") =>
    \A j \in 1..Len(FailedSeq) : ResourceStatus(FailedSeq[j]) = "error"

\* C23 as stated. In every reachable state of the loader, under any
\* sequence of defineResources(), startLoading() and per-asset settlements,
\* the completed count is within 0..totalResources and getProgress() is
\* within 0..100.
C23_CountAndProgressInRange ==
  /\ 0 <= loadedResources
  /\ loadedResources <= totalResources
  /\ 0 <= loadingProgress
  /\ loadingProgress <= 100

\* C24 as stated. Once dispose() of the loader has been called, the mapping
\* from names to handles stays empty: a load that was in flight at the
\* time of the call and succeeds afterwards adds no handle. (The scene
\* starts one load run, so every load that settles after a dispose() was in
\* flight when it was called.)
C24_MapStaysEmptyAfterDispose ==
  (disposeCalls > 0) => resources = EmptyMap

\* C25 as stated. The release operation of each loaded handle is called at
\* most once over the lifetime of the application, across
\* setupHDREnvironment(), SceneManager.dispose() and the loader's dispose().
C25_HandleReleasedAtMostOnce ==
  \A h \in DOMAIN disposeCount : disposeCount[h] <= 1

\* C26. After any sequence of startPolling() and stopPolling() calls at most
\* one recurring timer is active, isPolling is true exactly when a timer is
\* active, and a startPolling() call made while polling creates no timer
\* and issues no fetch.
C26_AtMostOneTimer ==
  /\ [](activeTimers <= 1 /\ (isPolling <=> activeTimers = 1))
  /\ [][(isPolling /\ StartPolling) =>
          (activeTimers' = activeTimers /\ fetchCalls' = fetchCalls)]_vars

\* polling was started, stopped while its first fetch was in flight, and
\* started again: one timer is active
C26_Witness ==
  /\ isPolling
  /\ activeTimers = 1
  /\ pollingInterval = "timer"
  /\ stale # {}
  /\ fetchCalls >= 2

\* C27 as stated. When two fetches overlap and the one issued earlier is
\* answered after the one issued later has delivered its sample, the older
\* answer does not overwrite the newer one: after that step currentPosition
\* and the last value delivered to each listener are still the sample of
\* the later-issued fetch.
C27_OlderSampleNeverOverwrites ==
  [][\A f \in inFlight :
       (lastReturn'.id = f.id /\ f.id < lastReturn.id
          /\ lastReturn.result # {}) =>
         /\ currentPosition' \in lastReturn.result
         /\ \A i \in DOMAIN listenerObs' :
              listenerObs'[i] # << >> =>
                listenerObs'[i][Len(listenerObs'[i])] \in lastReturn.result]_vars

\* C28 as stated. Every sample with a latitude in [-90, 90] and a longitude
\* in [-180, 180], a latitude or a longitude of exactly 0 included, leaves
\* the ISS marker and the ground reference marker at the projection of that
\* sample.
C28_ValidSampleMovesMarkers ==
  \A sample \in lastSample :
    (IsValidLatitude(sample.lat) /\ IsValidLongitude(sample.lon)) =>
      /\ issMeshPosition =
           ConvertLatLonToVector3D(sample.lat, sample.lon, IssOrbitHeight)
      /\ groundMarkerPosition =
           ConvertLatLonToVector3D(sample.lat, sample.lon, SurfaceHeight)

\* C29 as stated. After every animation frame processed in orbit mode the
\* camera is on the circle of radius cameraRadius around the centre of the
\* sphere in the plane y = 0, also when frames spent in follow-iss mode
\* came before.
C29_OrbitCameraOnCircle ==
  [][(frames' = frames + 1 /\ cameraMode = "orbit") =>
       (cameraY' = 0 /\ cameraCircleAngle' = {rotationAngle'})]_vars

====
